---- MODULE Spec2Model ----
(***************************************************************************)
(* CrosswordCreator (crossword/generate.py): node consistency, AC-3,       *)
(* backtracking search and the assignment validator, as a state machine    *)
(* following one run of solve(), plus a second specification that applies  *)
(* consistent() to arbitrary assignments.                                  *)
(***************************************************************************)
EXTENDS Integers, Sequences, FiniteSets, TLC

VARIABLES crossword, domains, pc, seed, arcs, arc, revised, ac3ret,
          assignment, stack, result

vars == <<crossword, domains, pc, seed, arcs, arc, revised, ac3ret,
          assignment, stack, result>>

(***************************************************************************)
(* Bounds                                                                  *)
(***************************************************************************)
\* Largest word list handed to the creator.
MaxWords == 3
\* Longest list of arcs handed to ac3.
MaxSeed == 2

(***************************************************************************)
(* Structural model (crossword.py: Variable, Crossword)                    *)
(***************************************************************************)
ACROSS == "across"
DOWN == "down"

\* Python's None where a tuple is expected (an absent overlap, no arc).
None == <<>>

Variable(i, j, direction, length) ==
    [i |-> i, j |-> j, direction |-> direction, length |-> length]

\* The cells a slot occupies, in word order.
cells(var) ==
    [k \in 1..var.length |->
        <<var.i + (IF var.direction = DOWN THEN k - 1 ELSE 0),
          var.j + (IF var.direction = ACROSS THEN k - 1 ELSE 0)>>]

\* Crossword.__init__: the entry of `overlaps` for a pair of distinct slots is
\* None, or the pair of 0-based indices of the cell the two share.
Overlap(x, y) ==
    LET shared == {p \in (1..x.length) \X (1..y.length) :
                       cells(x)[p[1]] = cells(y)[p[2]]}
    IN  IF shared = {} THEN None
        ELSE LET p == CHOOSE q \in shared : TRUE IN <<p[1] - 1, p[2] - 1>>

Crossword(structure, words) ==
    [variables |-> structure,
     words |-> words,
     overlaps |-> [p \in {q \in structure \X structure : q[1] # q[2]} |->
                      Overlap(p[1], p[2])]]

\* self.crossword.overlaps[x, y]
overlaps(x, y) == crossword.overlaps[<<x, y>>]

neighbors(var) ==
    {v \in crossword.variables \ {var} : overlaps(v, var) # None}

\* The character of a word at a 0-based index.
CharAt(word, idx) == word[idx + 1]

\* The words the word lists are drawn from.
Vocabulary ==
    { <<"c", "a", "t">>, <<"c", "a", "r">>, <<"t", "a", "c">>,
      <<"a", "r", "c">>, <<"c", "a">>, <<"a", "t">> }

\* The grids: each is the set of slots of a rectangular grid.
Structures ==
    { \* ___
      {Variable(0, 0, ACROSS, 3)},
      \* ___ / _##
      {Variable(0, 0, ACROSS, 3), Variable(0, 0, DOWN, 2)},
      \* ___ / #_# / #_#
      {Variable(0, 0, ACROSS, 3), Variable(0, 1, DOWN, 3)},
      \* ___ / ### / ___
      {Variable(0, 0, ACROSS, 3), Variable(2, 0, ACROSS, 3)},
      \* ___ / ### / __#
      {Variable(0, 0, ACROSS, 3), Variable(2, 0, ACROSS, 2)},
      \* ___ / _#_ / _#_
      {Variable(0, 0, ACROSS, 3), Variable(0, 0, DOWN, 3),
       Variable(0, 2, DOWN, 3)} }

Crosswords ==
    {Crossword(s, w) :
        s \in Structures,
        w \in {u \in SUBSET Vocabulary :
                   Cardinality(u) >= 1 /\ Cardinality(u) <= MaxWords}}

(***************************************************************************)
(* Iteration orders: a Python set is iterated in an arbitrary order.       *)
(***************************************************************************)
Range(s) == {s[k] : k \in 1..Len(s)}

Orders(S) ==
    {s \in [1..Cardinality(S) -> S] : \A a, b \in 1..Cardinality(S) :
                                          s[a] = s[b] => a = b}

\* dict operations
Keys(a) == DOMAIN a
EmptyDict == [v \in {} |-> None]
Put(a, var, word) == [v \in (DOMAIN a) \cup {var} |-> IF v = var THEN word ELSE a[v]]
Pop(a, var) == [v \in (DOMAIN a) \ {var} |-> a[v]]

(***************************************************************************)
(* enforce_node_consistency                                                *)
(***************************************************************************)
\* Faulty variant: the test is `<` where the code has `!=`.
NodeConsistentShorter(doms) ==
    [var \in DOMAIN doms |-> {word \in doms[var] : ~ (var.length < Len(word))}]

NodeConsistent(doms) ==
    [var \in DOMAIN doms |-> {word \in doms[var] : var.length = Len(word)}]

(***************************************************************************)
(* revise(x, y): the new domain of x and the value returned                *)
(***************************************************************************)
\* Faulty variant: both words are read at x's index of the overlap.
reviseSameIndex(doms, x, y) ==
    IF overlaps(x, y) = None
    THEN [domain |-> doms[x], revised |-> FALSE]
    ELSE LET removes ==
                 {word \in doms[x] :
                     ~ \E aword \in doms[y] :
                           CharAt(word, overlaps(x, y)[1])
                               = CharAt(aword, overlaps(x, y)[1])}
         IN  [domain |-> doms[x] \ removes, revised |-> removes # {}]

\* Faulty variant: no early return; without an overlap no word of y matches.
reviseNoGuard(doms, x, y) ==
    LET removes ==
            {word \in doms[x] :
                ~ \E aword \in doms[y] :
                      /\ overlaps(x, y) # None
                      /\ CharAt(word, overlaps(x, y)[1])
                             = CharAt(aword, overlaps(x, y)[2])}
    IN  [domain |-> doms[x] \ removes, revised |-> removes # {}]

\* Faulty variant: a call takes out one of the words without a match.
reviseOneAtATime(doms, x, y) ==
    IF overlaps(x, y) = None
    THEN [domain |-> doms[x], revised |-> FALSE]
    ELSE LET removes ==
                 {word \in doms[x] :
                     ~ \E aword \in doms[y] :
                           CharAt(word, overlaps(x, y)[1])
                               = CharAt(aword, overlaps(x, y)[2])}
         IN  IF removes = {}
             THEN [domain |-> doms[x], revised |-> FALSE]
             ELSE [domain |-> doms[x] \ {CHOOSE word \in removes : TRUE},
                   revised |-> TRUE]

\* Faulty variant: a word stays only when every word of y agrees with it.
reviseAllMustMatch(doms, x, y) ==
    IF overlaps(x, y) = None
    THEN [domain |-> doms[x], revised |-> FALSE]
    ELSE LET removes ==
                 {word \in doms[x] :
                     ~ \A aword \in doms[y] :
                           CharAt(word, overlaps(x, y)[1])
                               = CharAt(aword, overlaps(x, y)[2])}
         IN  [domain |-> doms[x] \ removes, revised |-> removes # {}]

\* Faulty variant: the words removed are taken out of both domains joined.
reviseJoins(doms, x, y) ==
    IF overlaps(x, y) = None
    THEN [domain |-> doms[x], revised |-> FALSE]
    ELSE LET removes ==
                 {word \in doms[x] :
                     ~ \E aword \in doms[y] :
                           CharAt(word, overlaps(x, y)[1])
                               = CharAt(aword, overlaps(x, y)[2])}
         IN  [domain |-> (doms[x] \cup doms[y]) \ removes,
              revised |-> removes # {}]

revise(doms, x, y) ==
    IF overlaps(x, y) = None
    THEN [domain |-> doms[x], revised |-> FALSE]
    ELSE LET removes ==
                 {word \in doms[x] :
                     ~ \E aword \in doms[y] :
                           CharAt(word, overlaps(x, y)[1])
                               = CharAt(aword, overlaps(x, y)[2])}
         IN  [domain |-> doms[x] \ removes, revised |-> removes # {}]

(***************************************************************************)
(* ac3: the initial list of arcs                                           *)
(***************************************************************************)
RECURSIVE InitialArcsFrom(_, _, _, _)
InitialArcsFrom(order, a, b, acc) ==
    IF a > Len(order) THEN acc
    ELSE IF b > Len(order) THEN InitialArcsFrom(order, a + 1, 1, acc)
    ELSE LET var == order[a]
             var2 == order[b]
         IN  IF var # var2 /\ <<var2, var>> \notin Range(acc)
             THEN InitialArcsFrom(order, a, b + 1, Append(acc, <<var, var2>>))
             ELSE InitialArcsFrom(order, a, b + 1, acc)

\* Faulty variant: no test for the reverse arc.
InitialArcsBothWays(order) ==
    [k \in 1..(Len(order) * (Len(order) - 1)) |->
        LET a == ((k - 1) \div (Len(order) - 1)) + 1
            r == ((k - 1) % (Len(order) - 1)) + 1
            b == IF r >= a THEN r + 1 ELSE r
        IN  <<order[a], order[b]>>]

InitialArcs(order) == InitialArcsFrom(order, 1, 1, <<>>)

\* The default of ac3's parameter: arcs=None. A list passed is {list}.
NoArcs == {}

(***************************************************************************)
(* consistent(assignment): the outcomes the call can have, "True", "False" *)
(* or "IndexError", over the orders in which the dict and the neighbour    *)
(* sets can be iterated.                                                   *)
(***************************************************************************)
\* The outcomes of the neighbour loop for one variable: {} when it passes.
NeighborOutcomes(a, variable) ==
    LET assigned == {n \in neighbors(variable) : n \in Keys(a)}
        raises == {n \in assigned : overlaps(variable, n)[2] >= Len(a[n])}
        differs == {n \in assigned \ raises :
                       CharAt(a[variable], overlaps(variable, n)[1])
                           # CharAt(a[n], overlaps(variable, n)[2])}
    IN  (IF raises # {} THEN {"IndexError"} ELSE {})
            \cup (IF differs # {} THEN {"False"} ELSE {})

\* Faulty variant: the count of distinct words is not compared.
RECURSIVE consistentFromNoDistinct(_, _, _)
consistentFromNoDistinct(a, order, k) ==
    IF k > Len(order) THEN {"True"}
    ELSE LET variable == order[k]
         IN  IF Len(a[variable]) # variable.length THEN {"False"}
             ELSE IF NeighborOutcomes(a, variable) # {}
                  THEN NeighborOutcomes(a, variable)
                  ELSE consistentFromNoDistinct(a, order, k + 1)

RECURSIVE consistentFrom(_, _, _)
consistentFrom(a, order, k) ==
    IF k > Len(order)
    THEN IF Cardinality({a[v] : v \in Keys(a)}) # Cardinality(Keys(a))
         THEN {"False"} ELSE {"True"}
    ELSE LET variable == order[k]
         IN  IF Len(a[variable]) # variable.length THEN {"False"}
             ELSE IF NeighborOutcomes(a, variable) # {}
                  THEN NeighborOutcomes(a, variable)
                  ELSE consistentFrom(a, order, k + 1)

consistent(a) == UNION {consistentFrom(a, order, 1) : order \in Orders(Keys(a))}

(***************************************************************************)
(* assignment_complete(assignment)                                         *)
(***************************************************************************)
\* Faulty variant: only the keys are looked at.
assignment_completeKeysOnly(a) ==
    IF crossword.variables \ Keys(a) # {} THEN {"False"} ELSE {"True"}

assignment_complete(a) ==
    IF crossword.variables \ Keys(a) # {} THEN {"False"} ELSE consistent(a)

(***************************************************************************)
(* order_domain_values(var, assignment), iterating var's domain in `order` *)
(***************************************************************************)
\* The words of a neighbour's domain that `word` rules out (lines 225-229).
RuledOutOf(doms, var, word, neighbor) ==
    Cardinality({neighborWord \in doms[neighbor] :
                    CharAt(word, overlaps(var, neighbor)[1])
                        # CharAt(neighborWord, overlaps(var, neighbor)[2])})

RECURSIVE SumRuledOut(_, _, _, _)
SumRuledOut(doms, var, word, todo) ==
    IF todo = {} THEN 0
    ELSE LET neighbor == CHOOSE n \in todo : TRUE
         IN  RuledOutOf(doms, var, word, neighbor)
                 + SumRuledOut(doms, var, word, todo \ {neighbor})

\* Faulty variant: the neighbours in the assignment are counted too.
numRuledOutAllNeighbors(doms, var, a, word) ==
    SumRuledOut(doms, var, word, neighbors(var))

\* numRuledOut for one word of the domain (lines 222-229).
numRuledOut(doms, var, a, word) ==
    SumRuledOut(doms, var, word, {n \in neighbors(var) : n \notin Keys(a)})

\* Faulty variant: an item whose key is already in the list is left out.
SortInsertDropsTies(sorted, item) ==
    LET n == Cardinality({k \in 1..Len(sorted) : sorted[k][2] <= item[2]})
    IN  IF \E k \in 1..Len(sorted) : sorted[k][2] = item[2]
        THEN sorted
        ELSE SubSeq(sorted, 1, n) \o <<item>> \o SubSeq(sorted, n + 1, Len(sorted))

\* list.sort(key=...) is stable: an item goes after the items whose key is
\* not larger.
SortInsert(sorted, item) ==
    LET n == Cardinality({k \in 1..Len(sorted) : sorted[k][2] <= item[2]})
    IN  SubSeq(sorted, 1, n) \o <<item>> \o SubSeq(sorted, n + 1, Len(sorted))

RECURSIVE SortFrom(_, _, _)
SortFrom(list, k, sorted) ==
    IF k > Len(list) THEN sorted
    ELSE SortFrom(list, k + 1, SortInsert(sorted, list[k]))

order_domain_values(doms, var, a, order) ==
    LET sortingList == [k \in 1..Len(order) |->
                           <<order[k], numRuledOut(doms, var, a, order[k])>>]
        sortedList == SortFrom(sortingList, 1, <<>>)
    IN  [k \in 1..Len(sortedList) |-> sortedList[k][1]]

(***************************************************************************)
(* select_unassigned_variable(assignment), iterating the slots in `order`  *)
(***************************************************************************)
\* Faulty variant: the assigned slots are measured too.
RECURSIVE shortestFromAllSlots(_, _, _, _, _)
shortestFromAllSlots(doms, a, order, k, shortest) ==
    IF k > Len(order) THEN shortest
    ELSE LET size == Cardinality(doms[order[k]])
         IN  IF shortest = -1 \/ shortest = 0
             THEN shortestFromAllSlots(doms, a, order, k + 1, size)
             ELSE IF size < shortest
                  THEN shortestFromAllSlots(doms, a, order, k + 1, size)
                  ELSE shortestFromAllSlots(doms, a, order, k + 1, shortest)

\* `shortest` after the first loop; -1 stands for None.
RECURSIVE shortestFrom(_, _, _, _, _)
shortestFrom(doms, a, order, k, shortest) ==
    IF k > Len(order) THEN shortest
    ELSE LET variable == order[k]
             size == Cardinality(doms[variable])
         IN  IF variable \in Keys(a)
             THEN shortestFrom(doms, a, order, k + 1, shortest)
             ELSE IF shortest = -1 \/ shortest = 0
                  THEN shortestFrom(doms, a, order, k + 1, size)
                  ELSE IF size < shortest
                       THEN shortestFrom(doms, a, order, k + 1, size)
                       ELSE shortestFrom(doms, a, order, k + 1, shortest)

\* bestVars before it is sorted (lines 262-266), as positions in `order`.
bestVars(doms, a, order) ==
    LET shortest == shortestFrom(doms, a, order, 1, -1)
    IN  {k \in 1..Len(order) :
            /\ order[k] \notin Keys(a)
            /\ Cardinality(doms[order[k]]) = shortest}

\* The slot returned at line 272, when bestVars is not empty.
select_unassigned_variable(doms, a, order) ==
    LET best == bestVars(doms, a, order)
        degree(k) == Cardinality(neighbors(order[k]))
        \* stable sort by degree, then reverse, then take the first
        pick == CHOOSE k \in best :
                    \A m \in best : degree(m) < degree(k)
                                        \/ (degree(m) = degree(k) /\ m <= k)
    IN  order[pick]

(***************************************************************************)
(* One run of solve()                                                      *)
(***************************************************************************)
Init ==
    /\ crossword \in Crosswords
    /\ domains = [var \in crossword.variables |-> crossword.words]
    /\ pc = "solve"
    /\ seed = NoArcs
    /\ arcs = <<>>
    /\ arc = None
    /\ revised = FALSE
    /\ ac3ret = "none"
    /\ assignment = EmptyDict
    /\ stack = <<>>
    /\ result = "running"

\* solve, line 92: self.enforce_node_consistency()
enforce_node_consistency ==
    /\ pc = "solve"
    /\ domains' = NodeConsistent(domains)
    /\ pc' = "ac3"
    /\ UNCHANGED <<crossword, seed, arcs, arc, revised, ac3ret, assignment, stack, result>>

\* ac3, lines 153-160, called with `given` for `arcs`: NoArcs is None, and
\* {list} is a list. `not arcs` holds of None and of the empty list.
ac3_call(given) ==
    /\ pc = "ac3"
    /\ seed' = given
    /\ IF given = NoArcs \/ given = {<<>>}
       THEN \E order \in Orders(crossword.variables) : arcs' = InitialArcs(order)
       ELSE \E list \in given : arcs' = list
    /\ pc' = "ac3_while"
    /\ UNCHANGED <<crossword, domains, arc, revised, ac3ret, assignment, stack, result>>

\* solve, line 93: self.ac3()
ac3 == ac3_call(NoArcs)

\* ac3, lines 163-165: pop the last arc and revise it, or leave the loop
\* and return True (line 172); solve drops the value and goes on to line 94.
ac3_while ==
    /\ pc = "ac3_while"
    /\ IF arcs = <<>>
       THEN /\ ac3ret' = "True"
            /\ pc' = "solve_backtrack"
            /\ UNCHANGED <<domains, arcs, arc, revised>>
       ELSE LET popped == arcs[Len(arcs)]
                r == revise(domains, popped[1], popped[2])
            IN  /\ arc' = popped
                /\ arcs' = SubSeq(arcs, 1, Len(arcs) - 1)
                /\ domains' = [domains EXCEPT ![popped[1]] = r.domain]
                /\ revised' = r.revised
                /\ pc' = "ac3_revised"
                /\ UNCHANGED ac3ret
    /\ UNCHANGED <<crossword, seed, assignment, stack, result>>

\* Faulty variant: an arc whose revision removed nothing is put back.
ac3_revisedRetries ==
    /\ pc = "ac3_revised"
    /\ IF ~revised
       THEN /\ arcs' = Append(arcs, arc)
            /\ pc' = "ac3_while"
            /\ UNCHANGED ac3ret
       ELSE IF Cardinality(domains[arc[1]]) = 0
            THEN /\ ac3ret' = "False"
                 /\ pc' = "solve_backtrack"
                 /\ UNCHANGED arcs
            ELSE /\ \E order \in Orders(neighbors(arc[1]) \ {arc[2]}) :
                        arcs' = arcs \o [k \in 1..Len(order) |-> <<order[k], arc[1]>>]
                 /\ pc' = "ac3_while"
                 /\ UNCHANGED ac3ret
    /\ UNCHANGED <<crossword, seed, domains, arc, revised, assignment, stack, result>>

\* Faulty variant: the arc from y is enqueued as well.
ac3_revisedAllNeighbors ==
    /\ pc = "ac3_revised"
    /\ IF ~revised
       THEN /\ pc' = "ac3_while"
            /\ UNCHANGED <<arcs, ac3ret>>
       ELSE IF Cardinality(domains[arc[1]]) = 0
            THEN /\ ac3ret' = "False"
                 /\ pc' = "solve_backtrack"
                 /\ UNCHANGED arcs
            ELSE /\ \E order \in Orders(neighbors(arc[1])) :
                        arcs' = arcs \o [k \in 1..Len(order) |-> <<order[k], arc[1]>>]
                 /\ pc' = "ac3_while"
                 /\ UNCHANGED ac3ret
    /\ UNCHANGED <<crossword, seed, domains, arc, revised, assignment, stack, result>>

\* ac3, lines 165-170: after revise returned
ac3_revised ==
    /\ pc = "ac3_revised"
    /\ IF ~revised
       THEN /\ pc' = "ac3_while"
            /\ UNCHANGED <<arcs, ac3ret>>
       ELSE IF Cardinality(domains[arc[1]]) = 0
            THEN /\ ac3ret' = "False"
                 /\ pc' = "solve_backtrack"
                 /\ UNCHANGED arcs
            ELSE /\ \E order \in Orders(neighbors(arc[1]) \ {arc[2]}) :
                        arcs' = arcs \o [k \in 1..Len(order) |-> <<order[k], arc[1]>>]
                 /\ pc' = "ac3_while"
                 /\ UNCHANGED ac3ret
    /\ UNCHANGED <<crossword, seed, domains, arc, revised, assignment, stack, result>>

\* solve, line 94: return self.backtrack(dict())
solve_backtrack ==
    /\ pc = "solve_backtrack"
    /\ assignment' = EmptyDict
    /\ pc' = "backtrack"
    /\ UNCHANGED <<crossword, seed, domains, arcs, arc, revised, ac3ret, stack, result>>

\* A call of backtrack returns the dict to its caller: to line 293 of the
\* calling frame, or out of solve.
Return(callers) ==
    /\ stack' = callers
    /\ IF callers = <<>>
       THEN pc' = "done" /\ result' = "assignment"
       ELSE pc' = "returned" /\ UNCHANGED result

\* An exception leaves solve.
Raise(exception) ==
    /\ pc' = "done"
    /\ result' = exception
    /\ UNCHANGED stack

\* backtrack, lines 284-286: entry of a call; bestVars[0] at line 272 raises
\* IndexError when the list is empty. A frame holds the call's
\* `variable`, the words its loop has taken (`tried`), and the assignment
\* the call was entered with (`entry`, kept for the properties only).
backtrack ==
    /\ pc = "backtrack"
    /\ \E r \in assignment_complete(assignment) :
          IF r = "True" THEN Return(stack)
          ELSE IF r = "False"
               THEN \E order \in Orders(crossword.variables) :
                        IF bestVars(domains, assignment, order) = {}
                        THEN Raise("IndexError")
                        ELSE /\ stack' = Append(stack,
                                    [variable |-> select_unassigned_variable(
                                                      domains, assignment, order),
                                     tried |-> {},
                                     entry |-> assignment])
                             /\ pc' = "for_word"
                             /\ UNCHANGED result
               ELSE Raise(r)
    /\ UNCHANGED <<crossword, seed, domains, arcs, arc, revised, ac3ret, assignment>>

\* Faulty variant: the words are taken from the word list, not the domain.
for_wordFromWordList ==
    /\ pc = "for_word"
    /\ LET top == stack[Len(stack)]
           rest == crossword.words \ top.tried
       IN  IF rest = {}
           THEN /\ Return(SubSeq(stack, 1, Len(stack) - 1))
                /\ UNCHANGED assignment
           ELSE /\ \E word \in rest :
                      /\ assignment' = Put(assignment, top.variable, word)
                      /\ stack' = [stack EXCEPT ![Len(stack)].tried = @ \cup {word}]
                /\ pc' = "check_consistent"
                /\ UNCHANGED result
    /\ UNCHANGED <<crossword, seed, domains, arcs, arc, revised, ac3ret>>

\* Faulty variant: the loop ends after the first word taken.
for_wordSingleTry ==
    /\ pc = "for_word"
    /\ LET top == stack[Len(stack)]
           rest == IF top.tried = {} THEN domains[top.variable] ELSE {}
       IN  IF rest = {}
           THEN /\ Return(SubSeq(stack, 1, Len(stack) - 1))
                /\ UNCHANGED assignment
           ELSE /\ \E word \in rest :
                      /\ assignment' = Put(assignment, top.variable, word)
                      /\ stack' = [stack EXCEPT ![Len(stack)].tried = @ \cup {word}]
                /\ pc' = "check_consistent"
                /\ UNCHANGED result
    /\ UNCHANGED <<crossword, seed, domains, arcs, arc, revised, ac3ret>>

\* Faulty variant: the loop does not move on to the next word.
for_wordForgetsTried ==
    /\ pc = "for_word"
    /\ LET top == stack[Len(stack)]
           rest == domains[top.variable]
       IN  IF rest = {}
           THEN /\ Return(SubSeq(stack, 1, Len(stack) - 1))
                /\ UNCHANGED assignment
           ELSE /\ \E word \in rest :
                      /\ assignment' = Put(assignment, top.variable, word)
                      /\ stack' = [stack EXCEPT ![Len(stack)].tried = {word}]
                /\ pc' = "check_consistent"
                /\ UNCHANGED result
    /\ UNCHANGED <<crossword, seed, domains, arcs, arc, revised, ac3ret>>

\* backtrack, lines 287-289 and 297: the next word of the domain, or the
\* end of the loop
for_word ==
    /\ pc = "for_word"
    /\ LET top == stack[Len(stack)]
           rest == domains[top.variable] \ top.tried
       IN  IF rest = {}
           THEN /\ Return(SubSeq(stack, 1, Len(stack) - 1))
                /\ UNCHANGED assignment
           ELSE /\ \E word \in rest :
                      /\ assignment' = Put(assignment, top.variable, word)
                      /\ stack' = [stack EXCEPT ![Len(stack)].tried = @ \cup {word}]
                /\ pc' = "check_consistent"
                /\ UNCHANGED result
    /\ UNCHANGED <<crossword, seed, domains, arcs, arc, revised, ac3ret>>

\* Faulty variant: a partial assignment is explored whatever the validator says.
check_consistentPartialPasses ==
    /\ pc = "check_consistent"
    /\ \E r \in consistent(assignment) :
          IF r = "True" \/ (r = "False" /\ Keys(assignment) # crossword.variables)
          THEN pc' = "backtrack" /\ UNCHANGED <<stack, result>>
          ELSE IF r = "False" THEN pc' = "pop" /\ UNCHANGED <<stack, result>>
          ELSE Raise(r)
    /\ UNCHANGED <<crossword, seed, domains, arcs, arc, revised, ac3ret, assignment>>

\* backtrack, lines 290-292: recurse when the extended assignment is consistent
check_consistent ==
    /\ pc = "check_consistent"
    /\ \E r \in consistent(assignment) :
          IF r = "True" THEN pc' = "backtrack" /\ UNCHANGED <<stack, result>>
          ELSE IF r = "False" THEN pc' = "pop" /\ UNCHANGED <<stack, result>>
          ELSE Raise(r)
    /\ UNCHANGED <<crossword, seed, domains, arcs, arc, revised, ac3ret, assignment>>

\* Faulty variant: the value of the recursive call is not looked at.
returnedIgnoresSuccess ==
    /\ pc = "returned"
    /\ pc' = "pop"
    /\ UNCHANGED <<crossword, seed, domains, arcs, arc, revised, ac3ret, assignment,
                   stack, result>>

\* backtrack, lines 293-294: the recursive call returned `result`, which is
\* the one dict `assignment`
returned ==
    /\ pc = "returned"
    /\ \E r \in assignment_complete(assignment) :
          IF r = "True" THEN Return(SubSeq(stack, 1, Len(stack) - 1))
          ELSE IF r = "False" THEN pc' = "pop" /\ UNCHANGED <<stack, result>>
          ELSE Raise(r)
    /\ UNCHANGED <<crossword, seed, domains, arcs, arc, revised, ac3ret, assignment>>

\* Faulty variant: the word taken back is also struck from the slot's domain.
popRemovesWord ==
    /\ pc = "pop"
    /\ assignment' = Pop(assignment, stack[Len(stack)].variable)
    /\ domains' = [domains EXCEPT ![stack[Len(stack)].variable] =
                       @ \ {assignment[stack[Len(stack)].variable]}]
    /\ pc' = "for_word"
    /\ UNCHANGED <<crossword, seed, arcs, arc, revised, ac3ret, stack, result>>

\* Faulty variant: the tentative entry is left in the assignment.
popKeepsEntry ==
    /\ pc = "pop"
    /\ pc' = "for_word"
    /\ UNCHANGED <<crossword, seed, domains, arcs, arc, revised, ac3ret, assignment,
                   stack, result>>

\* backtrack, line 296: assignment.pop(variable)
pop ==
    /\ pc = "pop"
    /\ assignment' = Pop(assignment, stack[Len(stack)].variable)
    /\ pc' = "for_word"
    /\ UNCHANGED <<crossword, seed, domains, arcs, arc, revised, ac3ret, stack, result>>

Next ==
    \/ enforce_node_consistency
    \/ ac3
    \/ ac3_while
    \/ ac3_revised
    \/ solve_backtrack
    \/ backtrack
    \/ for_word
    \/ check_consistent
    \/ returned
    \/ pop

Spec == Init /\ [][Next]_vars

\* solve() runs in one thread: a step that can be taken is taken.
SpecFair == Spec /\ WF_vars(Next)

(***************************************************************************)
(* consistent() applied to an arbitrary assignment of words of the list    *)
(***************************************************************************)
Assignments(cw) == UNION {[D -> cw.words] : D \in SUBSET cw.variables}

InitValidator ==
    /\ crossword \in Crosswords
    /\ domains = [var \in crossword.variables |-> crossword.words]
    /\ pc = "validator"
    /\ seed = NoArcs
    /\ arcs = <<>>
    /\ arc = None
    /\ revised = FALSE
    /\ ac3ret = "none"
    /\ assignment \in Assignments(crossword)
    /\ stack = <<>>
    /\ result = "running"

call_consistent ==
    /\ pc = "validator"
    /\ \E r \in consistent(assignment) : result' = r
    /\ pc' = "done"
    /\ UNCHANGED <<crossword, seed, domains, arcs, arc, revised, ac3ret, assignment, stack>>

call_assignment_complete ==
    /\ pc = "validator"
    /\ \E r \in assignment_complete(assignment) : result' = r
    /\ pc' = "completed"
    /\ UNCHANGED <<crossword, seed, domains, arcs, arc, revised, ac3ret, assignment, stack>>

NextValidator ==
    \/ call_consistent
    \/ call_assignment_complete

SpecValidator == InitValidator /\ [][NextValidator]_vars

(***************************************************************************)
(* A caller that enforces node and arc consistency and then asks for the   *)
(* ordered values of a slot under a consistent assignment of domain words. *)
(***************************************************************************)
DomainAssignments ==
    {a \in Assignments(crossword) :
        /\ \A v \in Keys(a) : a[v] \in domains[v]
        /\ consistent(a) = {"True"}}

call_order_domain_values ==
    /\ pc = "solve_backtrack"
    /\ \E var \in crossword.variables, a \in DomainAssignments :
          /\ var \notin Keys(a)
          /\ assignment' = a
          /\ stack' = <<[variable |-> var, tried |-> {}, entry |-> a]>>
          /\ \E order \in Orders(domains[var]) :
                result' = order_domain_values(domains, var, a, order)
    /\ pc' = "ordered"
    /\ UNCHANGED <<crossword, seed, domains, arcs, arc, revised, ac3ret>>

NextOrder ==
    \/ enforce_node_consistency
    \/ ac3
    \/ ac3_while
    \/ ac3_revised
    \/ call_order_domain_values

SpecOrder == Init /\ [][NextOrder]_vars

(***************************************************************************)
(* A caller that enforces node consistency and then calls ac3 with a list  *)
(* of arcs of its own.                                                     *)
(***************************************************************************)
Arcs == {p \in crossword.variables \X crossword.variables : p[1] # p[2]}

SeedLists == UNION {[1..n -> Arcs] : n \in 0..MaxSeed}

ac3_seeded == \E list \in SeedLists : ac3_call({list})

NextSeeded ==
    \/ enforce_node_consistency
    \/ ac3_seeded
    \/ ac3_while
    \/ ac3_revised

SpecSeeded == Init /\ [][NextSeeded]_vars

(***************************************************************************)
(* A caller that enforces node consistency and then revises arcs of its    *)
(* choice, each one twice in a row.                                        *)
(***************************************************************************)
\* revise(x, y); its value is kept in `result` as well.
call_revise ==
    /\ pc = "ac3"
    /\ \E a \in Arcs :
          LET r == revise(domains, a[1], a[2])
          IN  /\ arc' = a
              /\ domains' = [domains EXCEPT ![a[1]] = r.domain]
              /\ revised' = r.revised
              /\ result' = IF r.revised THEN "True" ELSE "False"
    /\ pc' = "revised_once"
    /\ UNCHANGED <<crossword, seed, arcs, ac3ret, assignment, stack>>

\* revise(x, y) once more, with the same x and y
call_revise_again ==
    /\ pc = "revised_once"
    /\ LET r == revise(domains, arc[1], arc[2])
       IN  /\ domains' = [domains EXCEPT ![arc[1]] = r.domain]
           /\ revised' = r.revised
    /\ pc' = "revised_twice"
    /\ UNCHANGED <<crossword, seed, arcs, arc, ac3ret, assignment, stack, result>>

\* the caller goes on to its next arc
next_revise ==
    /\ pc = "revised_twice"
    /\ pc' = "ac3"
    /\ UNCHANGED <<crossword, seed, domains, arcs, arc, revised, ac3ret,
                   assignment, stack, result>>

NextRevise ==
    \/ enforce_node_consistency
    \/ call_revise
    \/ call_revise_again
    \/ next_revise

SpecRevise == Init /\ [][NextRevise]_vars

(***************************************************************************)
(* Properties                                                              *)
(***************************************************************************)
\* Two words agree at the overlap of slots x and y.
Agree(x, wx, y, wy) ==
    /\ overlaps(x, y)[1] < Len(wx)
    /\ overlaps(x, y)[2] < Len(wy)
    /\ CharAt(wx, overlaps(x, y)[1]) = CharAt(wy, overlaps(x, y)[2])

\* The validator's three conditions on a (partial) assignment.
LengthsMatch(a) == \A v \in DOMAIN a : Len(a[v]) = v.length

OverlapsAgree(a) ==
    \A x, y \in DOMAIN a :
        (x # y /\ overlaps(x, y) # None) => Agree(x, a[x], y, a[y])

AllDistinct(a) == \A x, y \in DOMAIN a : x # y => a[x] # a[y]

Valid(a) == LengthsMatch(a) /\ OverlapsAgree(a) /\ AllDistinct(a)

Complete(a) == DOMAIN a = crossword.variables

\* The puzzle has a complete, mutually consistent assignment.
SolutionExists ==
    \E a \in [crossword.variables -> crossword.words] : Valid(a)

BacktrackPcs == {"backtrack", "for_word", "check_consistent", "returned", "pop"}

\* Node consistency has run and left some slot without a word.
EmptyAfterNodeConsistency ==
    /\ pc # "solve"
    /\ \E v \in crossword.variables : \A w \in crossword.words : Len(w) # v.length

\* The arc popped at line 164 by the step about to be taken.
NextArc == arcs[Len(arcs)]

\* C1: when the puzzle has no complete consistent assignment, solve()
\* returns None, never a mapping.
C1_NoSolutionReturnsNone ==
    (pc = "done" /\ ~SolutionExists) => result = "None"

\* C2: an assignment returned by solve() has an entry for every slot and
\* meets the three validator conditions.
C2_ReturnedAssignmentValid ==
    (pc = "done" /\ result = "assignment")
        => (Complete(assignment) /\ Valid(assignment))

\* C3: when a complete consistent assignment over the word list exists,
\* solve() returns a complete consistent assignment of words of the list.
C3_SolutionFound ==
    (pc = "done" /\ SolutionExists)
        => /\ result = "assignment"
           /\ Complete(assignment)
           /\ Valid(assignment)
           /\ \A v \in DOMAIN assignment : assignment[v] \in crossword.words

C3_Witness ==
    /\ pc = "done"
    /\ SolutionExists
    /\ Cardinality(crossword.variables) = 3

\* C4: when node consistency emptied a domain or ac3() returned False,
\* backtrack() is not invoked.
C4_ShortCircuit ==
    (EmptyAfterNodeConsistency \/ ac3ret = "False") => pc \notin BacktrackPcs

\* C5: after ac3() returned True, every word of every slot's domain has a
\* word agreeing with it in the domain of every overlapping slot.
C5_ArcConsistent ==
    ac3ret = "True"
        => \A x, y \in crossword.variables :
               (x # y /\ overlaps(x, y) # None)
                   => \A w \in domains[x] :
                          \E w2 \in domains[y] : Agree(x, w, y, w2)

\* C6: ac3() returns False exactly when some domain is empty at its return.
C6_FalseIffEmptyDomain ==
    ac3ret # "none"
        => (ac3ret = "False" <=> \E v \in crossword.variables : domains[v] = {})

\* C7: enforce_node_consistency() keeps of every domain exactly the words of
\* the slot's length, and goes on normally whether or not a domain is emptied.
C7_NodeConsistency ==
    [][pc = "solve"
          => /\ pc' = "ac3"
             /\ result' = "running"
             /\ \A var \in crossword.variables :
                   /\ domains'[var] \subseteq domains[var]
                   /\ \A w \in domains'[var] : Len(w) = var.length
                   /\ \A w \in domains[var] \ domains'[var] : Len(w) # var.length]_vars

C7_Witness ==
    /\ pc = "ac3"
    /\ \E var \in crossword.variables :
          domains[var] # {} /\ domains[var] # crossword.words

\* C8: for overlapping x and y, revise(x, y) keeps in x's domain exactly the
\* words that some word of y's domain agrees with, and returns True exactly
\* when it removed a word.
C8_ReviseOverlapping ==
    [][(pc = "ac3_while" /\ arcs # <<>> /\ overlaps(NextArc[1], NextArc[2]) # None)
          => LET x == NextArc[1]
                 y == NextArc[2]
             IN  /\ domains'[x] = {w \in domains[x] :
                                      \E w2 \in domains[y] : Agree(x, w, y, w2)}
                 /\ domains'[y] = domains[y]
                 /\ revised' <=> (domains'[x] # domains[x])]_vars

C8_Witness ==
    /\ pc = "ac3_revised"
    /\ overlaps(arc[1], arc[2]) # None
    /\ revised
    /\ domains[arc[1]] # {}

\* C9: for x and y that do not overlap, revise(x, y) changes no domain and
\* returns False.
C9_ReviseNoOverlap ==
    [][(pc = "ac3_while" /\ arcs # <<>> /\ overlaps(NextArc[1], NextArc[2]) = None)
          => (domains' = domains /\ revised' = FALSE)]_vars

C9_Witness ==
    /\ pc = "ac3_revised"
    /\ overlaps(arc[1], arc[2]) = None
    /\ domains[arc[1]] # {}
    /\ domains[arc[2]] = {}

\* C10: consistent(assignment) returns True exactly when the lengths match,
\* assigned neighbours agree at their overlap and the words are distinct;
\* it returns True for the empty assignment.
C10_ConsistentIff ==
    pc = "done"
        => /\ result = "True" <=> Valid(assignment)
           /\ assignment = EmptyDict => result = "True"

C10_Witness ==
    /\ pc = "done"
    /\ result = "True"
    /\ Cardinality(DOMAIN assignment) = 3

C12_MinRemainingValues ==
    (pc = "for_word" /\ stack[Len(stack)].tried = {})
        => LET v == stack[Len(stack)].variable
               unassigned == crossword.variables \ Keys(stack[Len(stack)].entry)
           IN  /\ v \in unassigned
               /\ \A u \in unassigned :
                     Cardinality(domains[v]) <= Cardinality(domains[u])
               /\ \A u \in unassigned :
                     Cardinality(domains[u]) = Cardinality(domains[v])
                         => Cardinality(neighbors(u)) <= Cardinality(neighbors(v))

\* The values a word of var's domain rules out: the pairs of a neighbour
\* outside the assignment and a word of its domain that differs from the
\* word at the overlap.
RuledOut(var, a, word) ==
    Cardinality({p \in (neighbors(var) \ DOMAIN a) \X crossword.words :
                    /\ p[2] \in domains[p[1]]
                    /\ ~Agree(var, word, p[1], p[2])})

\* C13: order_domain_values returns the words of var's domain in ascending
\* order of the values they rule out in the domains of the neighbours that
\* are not in the assignment.
C13_LeastConstrainingFirst ==
    pc = "ordered"
        => LET var == stack[1].variable
           IN  /\ Range(result) = domains[var]
               /\ \A i, j \in 1..Len(result) :
                     i < j => RuledOut(var, assignment, result[i])
                                  <= RuledOut(var, assignment, result[j])

C13_Witness ==
    /\ pc = "ordered"
    /\ Len(result) >= 2
    /\ neighbors(stack[1].variable) \cap DOMAIN assignment # {}
    /\ neighbors(stack[1].variable) \ DOMAIN assignment # {}
    /\ RuledOut(stack[1].variable, assignment, result[1])
           < RuledOut(stack[1].variable, assignment, result[Len(result)])

\* C14: backtrack takes the words of the selected slot in the order of
\* order_domain_values: the word it takes next rules out no more values than
\* any word it has still to take.
C14_TriedInOrder ==
    [][(pc = "for_word" /\ pc' = "check_consistent")
          => LET v == stack[Len(stack)].variable
                 rest == domains[v] \ stack[Len(stack)].tried
             IN  \A w \in rest :
                     RuledOut(v, assignment, assignment'[v])
                         <= RuledOut(v, assignment, w)]_vars

\* C15: a call of backtrack that has not found a complete assignment leaves
\* the assignment as it was entered: at the head of its loop, before every
\* candidate and at its return, the assignment is the one of its entry, and
\* a call that came back to line 293 without success left exactly the
\* caller's entries and its tentative word.
C15_BacktrackRestores ==
    /\ pc = "for_word" => assignment = stack[Len(stack)].entry
    /\ (pc = "returned" /\ ~(Complete(assignment) /\ Valid(assignment)))
          => LET top == stack[Len(stack)]
             IN  /\ top.variable \notin DOMAIN top.entry
                 /\ DOMAIN assignment = DOMAIN top.entry \cup {top.variable}
                 /\ \A v \in DOMAIN top.entry : assignment[v] = top.entry[v]
                 /\ assignment[top.variable] \in top.tried
    /\ (pc = "done" /\ ~Complete(assignment)) => assignment = EmptyDict

C15_Witness ==
    /\ pc = "for_word"
    /\ Len(stack) >= 2
    /\ stack[Len(stack)].tried # {}
    /\ stack[Len(stack)].tried # domains[stack[Len(stack)].variable]

\* C16: every word in the assignment during the search is in the current
\* domain of its slot.
C16_AssignedFromDomain ==
    pc \in BacktrackPcs \cup {"done"}
        => \A v \in DOMAIN assignment : assignment[v] \in domains[v]

C16_Witness ==
    /\ pc = "check_consistent"
    /\ \E w \in crossword.words :
          /\ Len(w) = stack[Len(stack)].variable.length
          /\ w \notin domains[stack[Len(stack)].variable]

\* C17: every domain starts as the full word list, and no step of
\* enforce_node_consistency, revise, ac3 or backtrack adds a word to a domain.
C17_DomainsShrink ==
    /\ \A v \in crossword.variables : domains[v] = crossword.words
    /\ [][\A v \in crossword.variables : domains'[v] \subseteq domains[v]]_vars

C17_Witness ==
    /\ pc \in BacktrackPcs
    /\ \E v \in crossword.variables :
          /\ domains[v] # {}
          /\ \E w \in crossword.words \ domains[v] : Len(w) = v.length
          /\ \E w \in crossword.words \ domains[v] : Len(w) # v.length

\* The unordered pairs of distinct slots.
SlotPairs == {p \in SUBSET crossword.variables : Cardinality(p) = 2}

\* C18: called without arcs, ac3 starts from a list that holds, for every
\* two distinct slots, exactly one of the two arcs between them, once, and
\* no arc from a slot to itself.
C18_InitialArcs ==
    (pc = "ac3_while" /\ arc = None /\ seed = NoArcs)
        => /\ \A k \in 1..Len(arcs) : arcs[k][1] # arcs[k][2]
           /\ \A p \in SlotPairs :
                 Cardinality({k \in 1..Len(arcs) : {arcs[k][1], arcs[k][2]} = p}) = 1
           /\ Len(arcs) = Cardinality(SlotPairs)

C18_Witness ==
    /\ pc = "ac3_while"
    /\ arc = None
    /\ seed = NoArcs
    /\ Len(arcs) = 3

\* C19: called with a list of arcs, ac3 starts from that list; called with
\* the empty list it revises nothing, changes no domain and returns True.
C19_SeedArcsUsed ==
    /\ (pc = "ac3_while" /\ arc = None /\ seed # NoArcs) => seed = {arcs}
    /\ (seed = {<<>>} /\ ac3ret # "none")
          => /\ ac3ret = "True"
             /\ arc = None
             /\ domains = NodeConsistent([v \in crossword.variables |->
                                             crossword.words])

\* C20: after revise(x, y) in ac3: when nothing was removed no arc is added;
\* when x's domain was emptied ac3 returns False at once; otherwise the arcs
\* (z, x) of the neighbours z of x other than y are added, and no other.
C20_Requeue ==
    [][pc = "ac3_revised"
          => LET x == arc[1]
                 y == arc[2]
                 added == SubSeq(arcs', Len(arcs) + 1, Len(arcs'))
             IN  IF ~revised
                 THEN arcs' = arcs /\ pc' = "ac3_while" /\ ac3ret' = "none"
                 ELSE IF domains[x] = {}
                      THEN /\ ac3ret' = "False"
                           /\ pc' \notin {"ac3_while", "ac3_revised"}
                           /\ arcs' = arcs
                           /\ domains' = domains
                      ELSE /\ pc' = "ac3_while"
                           /\ ac3ret' = "none"
                           /\ Len(arcs') >= Len(arcs)
                           /\ SubSeq(arcs', 1, Len(arcs)) = arcs
                           /\ Range(added) = {<<z, x>> : z \in neighbors(x) \ {y}}
                           /\ Len(added) = Cardinality(neighbors(x) \ {y})]_vars

C20_Witness ==
    /\ pc = "ac3_while"
    /\ arc # None
    /\ revised
    /\ domains[arc[1]] # {}
    /\ neighbors(arc[1]) \ {arc[2]} # {}

\* C21: the search leaves the domain store alone: no step of backtrack, with
\* the calls it makes, changes a domain or the puzzle, so the domains when
\* solve() returns are those ac3() left.
C21_SearchReadsDomains ==
    [][(pc \in BacktrackPcs \/ pc = "solve_backtrack")
          => (domains' = domains /\ crossword' = crossword)]_vars

C21_Witness ==
    /\ pc = "done"
    /\ Complete(assignment)
    /\ Cardinality(crossword.variables) = 3
    /\ \E v \in crossword.variables :
          \E w \in crossword.words \ domains[v] : Len(w) = v.length

\* The calls of backtrack that are active: one frame for each call past
\* line 284, and the call being entered.
ActiveCalls == Len(stack) + (IF pc = "backtrack" THEN 1 ELSE 0)

\* C22: backtrack() terminates, and its recursion is no deeper than the
\* number of slots: a recursive call is entered with one more assigned slot
\* than its caller was, and the calls nested below the outermost one never
\* outnumber the slots.
C22_BacktrackTerminates ==
    /\ [](pc \in BacktrackPcs
            => /\ ActiveCalls - 1 <= Cardinality(crossword.variables)
               /\ (pc = "backtrack" /\ stack # <<>>)
                     => Cardinality(DOMAIN assignment)
                            > Cardinality(DOMAIN stack[Len(stack)].entry)
               /\ \A k \in 1..(Len(stack) - 1) :
                     Cardinality(DOMAIN stack[k + 1].entry)
                         > Cardinality(DOMAIN stack[k].entry))
    /\ (pc = "solve_backtrack") ~> (pc = "done")

C22_Witness ==
    /\ pc = "backtrack"
    /\ Len(stack) = 3
    /\ Cardinality(crossword.variables) = 3

\* C23: backtrack is entered only with a consistent assignment, and a
\* tentative assignment the validator rejects is taken back, not explored.
C23_RecurseOnConsistent ==
    /\ [](pc = "backtrack" => Valid(assignment))
    /\ [][(pc = "check_consistent" /\ ~Valid(assignment))
              => (pc' = "pop" /\ stack' = stack)]_vars

C23_Witness ==
    /\ pc = "pop"
    /\ ~Valid(assignment)
    /\ Len(stack) >= 2

\* C24: once the search holds a complete consistent assignment it only
\* returns: no further word is tried, no entry is taken out at any level,
\* each call hands the same assignment to its caller, and solve returns it.
C24_SuccessShortCircuits ==
    [][(pc \in BacktrackPcs /\ Complete(assignment) /\ Valid(assignment))
          => /\ assignment' = assignment
             /\ pc' \in {"backtrack", "returned", "done"}
             /\ pc \in {"backtrack", "returned"}
                   => /\ pc' \in {"returned", "done"}
                      /\ pc' = "done" <=> stack' = <<>>
                      /\ pc' = "done" => result' = "assignment"
                      /\ pc = "returned"
                            => stack' = SubSeq(stack, 1, Len(stack) - 1)]_vars

C24_Witness ==
    /\ pc = "returned"
    /\ Len(stack) = 1
    /\ Complete(assignment)
    /\ Valid(assignment)
    /\ Cardinality(crossword.variables) = 3

\* The complete consistent assignments of the puzzle.
Solutions == {a \in [crossword.variables -> crossword.words] : Valid(a)}

\* C25: node consistency, revise and ac3 never take out of a slot's domain
\* a word the slot has in a complete consistent assignment; so when ac3
\* returned False, or a domain is empty, the puzzle has no such assignment.
C25_PropagationKeepsSolutions ==
    /\ \A a \in Solutions : \A v \in crossword.variables : a[v] \in domains[v]
    /\ (pc # "solve" /\ (ac3ret = "False"
                             \/ \E v \in crossword.variables : domains[v] = {}))
          => Solutions = {}

C25_Witness ==
    /\ pc = "solve_backtrack"
    /\ Solutions # {}
    /\ Cardinality(crossword.variables) = 3
    /\ \E v \in crossword.variables :
          \E w \in crossword.words \ domains[v] : Len(w) = v.length

\* C26: ac3() terminates: each pass of its loop takes one arc off the
\* worklist, arcs are put on it only after a revise that took a word out of
\* a domain, and the call returns.
C26_Ac3Terminates ==
    /\ [][(pc = "ac3_while" /\ arcs # <<>>)
              => /\ arcs' = SubSeq(arcs, 1, Len(arcs) - 1)
                 /\ revised' <=> (domains'[NextArc[1]] # domains[NextArc[1]])
                 /\ domains'[NextArc[1]] \subseteq domains[NextArc[1]]]_vars
    /\ [][(pc = "ac3_revised" /\ arcs' # arcs) => revised]_vars
    /\ (pc = "ac3") ~> (ac3ret # "none")

C26_Witness ==
    /\ pc = "ac3_while"
    /\ revised
    /\ arcs # <<>>
    /\ NextArc[2] = arc[1]
    /\ NextArc[1] # arc[2]

\* C27: whether solve() ends with a complete assignment is decided by the
\* grid and the word list alone, whatever orders of iteration the run took:
\* every run returns a dict, which is complete exactly when the puzzle has
\* a complete consistent assignment, and is empty otherwise.
C27_OutcomeIndependentOfOrder ==
    pc = "done"
        => /\ result = "assignment"
           /\ Complete(assignment) <=> Solutions # {}
           /\ Complete(assignment) => assignment \in Solutions
           /\ ~Complete(assignment) => assignment = EmptyDict

C27_Witness ==
    /\ pc = "done"
    /\ Complete(assignment)
    /\ \E v \in crossword.variables : neighbors(v) # {}
    /\ \E a \in Solutions : a # assignment

\* C28: in solve(), select_unassigned_variable is called only while a slot
\* is unassigned, returns a slot outside the assignment, and does not fail
\* on an empty list of candidates, whatever domains are empty.
C28_SelectNeverFails ==
    /\ (pc = "backtrack" /\ ~(Complete(assignment) /\ Valid(assignment)))
          => crossword.variables \ DOMAIN assignment # {}
    /\ pc = "for_word"
          => /\ stack[Len(stack)].variable \in crossword.variables
             /\ stack[Len(stack)].variable \notin DOMAIN stack[Len(stack)].entry
    /\ result # "IndexError"

C28_Witness ==
    /\ pc = "for_word"
    /\ Cardinality(crossword.variables \ DOMAIN assignment) >= 2
    /\ \A v \in crossword.variables \ DOMAIN assignment : domains[v] = {}

\* C29: revise(x, y) changes the domain of x alone, and only by taking words
\* out; a second revise(x, y) right after it takes out nothing and returns
\* False.
C29_ReviseFrameIdempotent ==
    /\ [][pc' = "revised_once"
              => /\ \A v \in crossword.variables \ {arc'[1]} :
                       domains'[v] = domains[v]
                 /\ domains'[arc'[1]] \subseteq domains[arc'[1]]
                 /\ DOMAIN domains' = DOMAIN domains]_vars
    /\ [][pc' = "revised_twice"
              => (domains' = domains /\ revised' = FALSE)]_vars

C29_Witness ==
    /\ pc = "revised_twice"
    /\ result = "True"
    /\ overlaps(arc[1], arc[2]) # None
    /\ domains[arc[1]] # {}
    /\ Cardinality(crossword.variables) = 3

\* C30: order_domain_values(var, assignment) returns the words of var's
\* domain, each exactly once and no other word, and leaves the domains and
\* the assignment it was given as they were.
C30_OrderIsPermutation ==
    /\ [](pc = "ordered"
            => /\ Range(result) = domains[stack[1].variable]
               /\ Len(result) = Cardinality(domains[stack[1].variable])
               /\ \A i, j \in 1..Len(result) : result[i] = result[j] => i = j)
    /\ [][pc' = "ordered"
              => (domains' = domains /\ assignment' = stack'[1].entry)]_vars

C30_Witness ==
    /\ pc = "ordered"
    /\ Len(result) >= 2
    /\ neighbors(stack[1].variable) \ DOMAIN assignment # {}
    /\ RuledOut(stack[1].variable, assignment, result[1])
           = RuledOut(stack[1].variable, assignment, result[2])

====
